---------------------------- MODULE Spec2Model ----------------------------
(***************************************************************************)
(* Model of the LEO timeline view (src/js/leo_timeline.js, lines 1-349):   *)
(* the row accessor passed to d3.csv, the working set leoData, the         *)
(* active-set filter, the stride subsampler, the seeded layout generator   *)
(* and the slider / checkbox / animation handlers.                         *)
(*                                                                         *)
(* Representation choices                                                  *)
(*  - A CSV cell is a TLA+ string; a column that is missing from the file  *)
(*    is the token Undefined.                                              *)
(*  - A JavaScript number is a record [k, v]: k = "num" with the integer   *)
(*    value v, k = "NaN", or k = "inf".                                    *)
(*  - A Date is the tuple <<year, month, day, secondOfDay>> (UTC), ordered *)
(*    lexicographically, which is the order of the time values.            *)
(*  - A 32-bit word is the pair <<hi, lo>> of 16-bit limbs; the generator  *)
(*    state t is a JavaScript double and is kept as <<hi, lo>> with an     *)
(*    unbounded hi limb.                                                   *)
(*  - A generator draw u = U / 2^32 is kept as the word U; the layout      *)
(*    fields are fixed-point numbers <<hi, lo>> of value (hi*2^16+lo)/2^32 *)
(*    in the unit named at each definition (exact real arithmetic; the     *)
(*    rounding of the double operations is not modelled).                  *)
(***************************************************************************)
EXTENDS Integers, Sequences, FiniteSets, TLC

(***************************************************************************)
(* Bounds of the model                                                     *)
(***************************************************************************)
\* number of data rows of the CSV file
MaxRows == 3
\* number of animation frames observed
MaxTicks == 2
\* longest input sequence handed to subsample in SpecSub
MaxLen == 7
\* largest render budget handed to subsample in SpecSub
MaxM == 4
\* number of calls made on one generator in SpecRng
MaxCalls == 4
\* the seeds 0 .. MaxSeed are tried in SpecRng
MaxSeed == 24
\* the large working sets have up to MAX_RENDERED + MaxOver + 1 records
MaxOver == 2
\* the file of the manufacturer view has at most MaxMfRows rows
MaxMfRows == 2
\* the chart of the manufacturer view is drawn at most MaxDraws times
MaxDraws == 3
\* the file of the launch map has at most MaxMapRows rows
MaxMapRows == 3
\* at most MaxPending draws of the launch map wait for their frames
MaxPending == 2
\* the launch map builds at most MaxSvg svg elements
MaxSvg == 2
\* the scenario of 10,000 records is also run on 1 .. MaxSmall records
MaxSmall == 12
\* the seeds of SpecRng are also tried with 1 .. MaxWraps times 2^32 added
\* to their magnitude
MaxWraps == 1

(***************************************************************************)
(* Program constants                                                       *)
(***************************************************************************)
earthRadius == 250
MAX_RENDERED == 1500
TYPE_OPTIONS == <<"PAY", "R/B", "DEB">>

Undefined == "<undefined>"

(***************************************************************************)
(* 32-bit arithmetic on <<hi, lo>> limb pairs                              *)
(***************************************************************************)
W16 == 65536

RECURSIVE Xor16(_, _, _)
Xor16(a, b, n) ==
  IF n = 0 THEN 0
  ELSE (((a % 2) + (b % 2)) % 2) + 2 * Xor16(a \div 2, b \div 2, n - 1)

RECURSIVE Or16(_, _, _)
Or16(a, b, n) ==
  IF n = 0 THEN 0
  ELSE (IF (a % 2) = 1 \/ (b % 2) = 1 THEN 1 ELSE 0) + 2 * Or16(a \div 2, b \div 2, n - 1)

\* ToUint32 / ToInt32 of a non-negative double: reduction modulo 2^32
ToUint32(w) == <<w[1] % W16, w[2]>>

\* a ^ b on 32-bit words
Xor32(a, b) == <<Xor16(a[1], b[1], 16), Xor16(a[2], b[2], 16)>>

\* c | a for a small constant c < 2^16
OrSmall(c, a) == <<a[1], Or16(c, a[2], 16)>>

RECURSIVE Pow2(_)
Pow2(n) == IF n = 0 THEN 1 ELSE 2 * Pow2(n - 1)

\* a >>> n for 0 < n < 16
Shr(a, n) ==
  <<a[1] \div Pow2(n), ((a[1] % Pow2(n)) * Pow2(16 - n)) + (a[2] \div Pow2(n))>>

\* (x * y) mod 2^16 without leaving the 32-bit integers
MulMod16(x, y) == (((((x \div 256) * y) % W16) * 256) + ((x % 256) * y)) % W16

\* Math.imul(a, b): the low 32 bits of the product
Imul(a, b) ==
  LET P  == (a[2] \div 256) * b[2]
      lo == ((P % 256) * 256) + ((a[2] % 256) * b[2])
      hi == (P \div 256) + (lo \div W16) + MulMod16(a[1], b[2]) + MulMod16(a[2], b[1])
  IN  <<hi % W16, lo % W16>>

\* a + b on doubles holding non-negative integers (no wrap-around)
AddWide(a, b) ==
  LET lo == a[2] + b[2]
  IN  <<a[1] + b[1] + (lo \div W16), lo % W16>>

\* a + b reduced modulo 2^32
Add32(a, b) == ToUint32(AddWide(a, b))

(***************************************************************************)
(* mulberry32 (lines 341-349)                                              *)
(***************************************************************************)
\* 0x6D2B79F5
Increment == <<27947, 31221>>

\* seed >>> 0 for an integer seed (negative seeds wrap modulo 2^32)
SeedToUint32(seed) ==
  IF seed >= 0 THEN <<(seed \div W16) % W16, seed % W16>>
  ELSE <<(W16 - 1) - ((((-seed) - 1) \div W16) % W16), (W16 - 1) - (((-seed) - 1) % W16)>>

\* let t = seed >>> 0
mulberry32(seed) == SeedToUint32(seed)

\* a seed that need not be a 32-bit integer: the number of sign neg and of
\* magnitude mag + 1/2 (half) or mag, mag being the wide value <<hi, lo>>
SeedNumber(seed, wraps, half) ==
  LET m == IF seed < 0 THEN 0 - seed ELSE seed
  IN  [neg  |-> seed < 0,
       mag  |-> <<(m \div W16) + (wraps * W16), m % W16>>,
       half |-> half]

\* x >>> 0 for such a number: the fraction is dropped (truncation towards
\* zero), the integer is reduced modulo 2^32
NumberToUint32(x) ==
  LET m == ToUint32(x.mag)
  IN  IF ~x.neg \/ m = <<0, 0>> THEN m
      ELSE IF m[2] = 0 THEN <<W16 - m[1], 0>>
      ELSE <<(W16 - 1) - m[1], W16 - m[2]>>

\* let t = seed >>> 0, for a seed given as such a number
mulberry32OfNumber(x) == NumberToUint32(x)

\* variant: the state stops at 2^32 - 1 instead of growing
rngStepClamped(t) ==
  LET w == AddWide(t, Increment)
  IN  IF w[1] >= W16 THEN <<W16 - 1, W16 - 1>> ELSE w

\* t += 0x6D2B79F5 : the state after one more call
rngStep(t) == AddWide(t, Increment)

\* variant: the final ">>> 0" is missing, the result is a signed 32-bit value
rngOutSigned(t) ==
  LET t32 == ToUint32(t)
      x1  == Imul(Xor32(t32, Shr(t32, 15)), OrSmall(1, t32))
      x2  == Xor32(x1, Add32(x1, Imul(Xor32(x1, Shr(x1, 7)), OrSmall(61, x1))))
      u   == Xor32(x2, Shr(x2, 14))
  IN  IF u[1] >= 32768 THEN <<u[1] - W16, u[2]>> ELSE u

\* the word U returned (as U / 4294967296) by a call that leaves the state t
rngOut(t) ==
  LET t32 == ToUint32(t)
      x1  == Imul(Xor32(t32, Shr(t32, 15)), OrSmall(1, t32))
      x2  == Xor32(x1, Add32(x1, Imul(Xor32(x1, Shr(x1, 7)), OrSmall(61, x1))))
  IN  Xor32(x2, Shr(x2, 14))

\* the k-th draw (k >= 1) of a fresh generator rng = mulberry32(seed)
RECURSIVE rngState(_, _)
rngState(seed, k) == IF k = 0 THEN mulberry32(seed) ELSE rngStep(rngState(seed, k - 1))

rngDraw(seed, k) == rngOut(rngState(seed, k))

(***************************************************************************)
(* JavaScript values                                                       *)
(***************************************************************************)
Num(n) == [k |-> "num", v |-> n]
NaN == [k |-> "NaN", v |-> 0]
Infinity == [k |-> "inf", v |-> 0]
Null == [null |-> TRUE]
NullDate == <<>>

\* Number.isFinite
IsFinite(x) == x.k = "num"

\* the decimal numerals that occur in the cells of the model
NumeralValue ==
  ("0" :> 0) @@ ("1" :> 1) @@ ("2" :> 2) @@ ("3" :> 3) @@ ("-1" :> (-1)) @@
  ("90" :> 90) @@ ("127" :> 127) @@ ("128" :> 128) @@ ("500" :> 500) @@
  ("2000" :> 2000) @@ ("2001" :> 2001) @@ ("36000" :> 36000)

\* strings made of white space only (StringToNumber gives +0 for them)
BlankStrings == {"", " "}

\* unary plus: ToNumber of a cell
ToNumber(v) ==
  IF v = Undefined THEN NaN
  ELSE IF v \in BlankStrings THEN Num(0)
  ELSE IF v \in DOMAIN NumeralValue THEN Num(NumeralValue[v])
  ELSE IF v = "Infinity" THEN Infinity
  ELSE NaN

\* ToBoolean of a cell
Truthy(v) == v # Undefined /\ v # ""

\* String.prototype.trim on the type cells of the model
Trim(s) ==
  CASE s = "DEB " -> "DEB"
    [] s = " "    -> ""
    [] OTHER      -> s

\* toNum (lines 336-339)
toNum(v) ==
  LET n == ToNumber(v)
  IN  IF IsFinite(n) THEN n ELSE NaN

(***************************************************************************)
(* Dates                                                                   *)
(***************************************************************************)
IsLeapYear(y) == (y % 4 = 0 /\ y % 100 # 0) \/ y % 400 = 0

DaysInMonth(y, m) ==
  IF m = 2 THEN (IF IsLeapYear(y) THEN 29 ELSE 28)
  ELSE IF m \in {4, 6, 9, 11} THEN 30 ELSE 31

\* carry a day number that is outside its month into the neighbouring months
RECURSIVE RollDay(_, _, _, _)
RollDay(y, m, d, sec) ==
  IF d < 1 THEN
    LET py == IF m = 1 THEN y - 1 ELSE y
        pm == IF m = 1 THEN 12 ELSE m - 1
    IN  RollDay(py, pm, d + DaysInMonth(py, pm), sec)
  ELSE IF d > DaysInMonth(y, m) THEN
    RollDay(IF m = 12 THEN y + 1 ELSE y, IF m = 12 THEN 1 ELSE m + 1,
            d - DaysInMonth(y, m), sec)
  ELSE <<y, m, d, sec>>

\* the date of year y, zero-based month m0 and day d, with the carries of
\* MakeDay; the year is taken as it is
MakeDate(y, m0, d, sec) == RollDay(y + (m0 \div 12), (m0 % 12) + 1, d, sec)

\* Date.UTC(year, month, day, 23, 59, 59): years 0..99 mean 1900..1999
DateUTC(year, m0, d, sec) ==
  MakeDate(IF year >= 0 /\ year <= 99 THEN 1900 + year ELSE year, m0, d, sec)

\* a <= b and a > b on Dates (comparison of the time values)
DateLE(a, b) ==
  \/ a[1] < b[1]
  \/ a[1] = b[1] /\ a[2] < b[2]
  \/ a[1] = b[1] /\ a[2] = b[2] /\ a[3] < b[3]
  \/ a[1] = b[1] /\ a[2] = b[2] /\ a[3] = b[3] /\ a[4] <= b[4]

DateGT(a, b) == ~DateLE(a, b)

\* getUTCFullYear
getUTCFullYear(date) == date[1]

\* the fields <<%Y, %m, %d>> that the specifier "%Y-%m-%d" reads from the
\* date cells of the model; <<>> when the cell does not match the specifier
DateFields(s) ==
  CASE s = "2000-01-01" -> <<2000, 1, 1>>
    [] s = "2000-06-30" -> <<2000, 6, 30>>
    [] s = "2000-12-31" -> <<2000, 12, 31>>
    [] s = "2001-02-31" -> <<2001, 2, 31>>
    [] s = "2001-12-31" -> <<2001, 12, 31>>
    [] s = "2001-13-01" -> <<2001, 13, 1>>
    [] s = "2002-06-30" -> <<2002, 6, 30>>
    [] OTHER            -> <<>>

\* variant: a cell that does not match yields the parser's initial date
parseDateLenient(s) ==
  LET f == DateFields(s)
  IN  IF f = <<>> THEN MakeDate(1900, 0, 1, 0) ELSE MakeDate(f[1], f[2] - 1, f[3], 0)

\* parseDate = d3.utcParse("%Y-%m-%d") (line 15): null when the cell does not
\* match, else the UTC midnight of the fields read (d.m = month - 1), which
\* are not range-checked
parseDate(s) ==
  LET f == DateFields(s)
  IN  IF f = <<>> THEN NullDate ELSE MakeDate(f[1], f[2] - 1, f[3], 0)

(***************************************************************************)
(* Layout derivation (lines 211-214)                                       *)
(***************************************************************************)
\* c * U for a small constant c, as a wide <<hi, lo>> value
MulSmall(c, U) ==
  LET lo == c * U[2]
  IN  <<(c * U[1]) + (lo \div W16), lo % W16>>

\* Math.PI + rng() * Math.PI, in units of pi
baseAngleOf(U) == <<W16 + U[1], U[2]>>

\* earthRadius + 35 + rng() * 190, in pixels
baseRadiusOf(U) == AddWide(<<(earthRadius + 35) * W16, 0>>, MulSmall(190, U))

\* 0.08 + rng() * 0.20, in hundredths
driftMagOf(U) == AddWide(<<8 * W16, 0>>, MulSmall(20, U))

\* rng() < 0.5 ? -1 : 1
driftSignOf(U) == IF U[1] < 32768 THEN -1 ELSE 1

\* the layout made of four successive draws
LayoutOfDraws(u1, u2, u3, u4) ==
  [baseAngle  |-> baseAngleOf(u1),
   baseRadius |-> baseRadiusOf(u2),
   drift      |-> [mag |-> driftMagOf(u3), sign |-> driftSignOf(u4)]]

\* the four draws of rng = mulberry32(norad), in call order
Layout(norad) ==
  LayoutOfDraws(rngDraw(norad, 1), rngDraw(norad, 2), rngDraw(norad, 3),
                rngDraw(norad, 4))

\* the ids a record of the model can get: the numerals of the id cells and
\* the fallbacks i + 1; Layout is evaluated once for each
SeedDomain == 0 .. (MaxRows + 3)
LayoutTable == [n \in SeedDomain |-> Layout(n)]

(***************************************************************************)
(* Row accessor of d3.csv (lines 196-226)                                  *)
(***************************************************************************)
\* +d.NORAD_CAT_ID || i + 1
noradOf(d, i) ==
  LET n == ToNumber(d.NORAD_CAT_ID)
  IN  IF n.k = "num" /\ n.v # 0 THEN n.v ELSE i + 1

\* variant: both thresholds are required
isLeoBoth(d) ==
  LET apogee      == toNum(d.APOGEE)
      period      == toNum(d.PERIOD)
      isEarth     == d.ORBIT_CENTER = "EA"
      leoByApogee == IsFinite(apogee) /\ apogee.v <= 2000
      leoByPeriod == IsFinite(period) /\ period.v <= 127
  IN  isEarth /\ (leoByApogee /\ leoByPeriod)

\* variant: the orbit center is not tested
isLeoAnyCenter(d) ==
  LET apogee      == toNum(d.APOGEE)
      period      == toNum(d.PERIOD)
      leoByApogee == IsFinite(apogee) /\ apogee.v <= 2000
      leoByPeriod == IsFinite(period) /\ period.v <= 127
  IN  leoByApogee \/ leoByPeriod

\* isLeo (lines 204-207)
isLeoOf(d) ==
  LET apogee      == toNum(d.APOGEE)
      period      == toNum(d.PERIOD)
      isEarth     == d.ORBIT_CENTER = "EA"
      leoByApogee == IsFinite(apogee) /\ apogee.v <= 2000
      leoByPeriod == IsFinite(period) /\ period.v <= 127
  IN  isEarth /\ (leoByApogee \/ leoByPeriod)

\* variant: the generator is seeded with the row number instead of the id
AccessorSeedByRow(d, i) ==
  LET launchDate == parseDate(d.LAUNCH_DATE)
      decayDate  == IF Truthy(d.DECAY_DATE) THEN parseDate(d.DECAY_DATE) ELSE NullDate
      norad      == noradOf(d, i)
      objectType == Trim(IF Truthy(d.OBJECT_TYPE) THEN d.OBJECT_TYPE ELSE "")
      lay        == LayoutTable[i + 1]
  IN  IF launchDate = NullDate \/ ~isLeoOf(d) THEN Null
      ELSE [NORAD_CAT_ID |-> d.NORAD_CAT_ID, OBJECT_TYPE |-> d.OBJECT_TYPE,
            LAUNCH_DATE |-> d.LAUNCH_DATE, DECAY_DATE |-> d.DECAY_DATE,
            APOGEE |-> d.APOGEE, PERIOD |-> d.PERIOD,
            ORBIT_CENTER |-> d.ORBIT_CENTER,
            objectType |-> objectType, launchDate |-> launchDate,
            decayDate |-> decayDate, norad |-> norad,
            baseAngle |-> lay.baseAngle, baseRadius |-> lay.baseRadius,
            drift |-> lay.drift]

Accessor(d, i) ==
  LET launchDate == parseDate(d.LAUNCH_DATE)
      decayDate  == IF Truthy(d.DECAY_DATE) THEN parseDate(d.DECAY_DATE) ELSE NullDate
      norad      == noradOf(d, i)
      objectType == Trim(IF Truthy(d.OBJECT_TYPE) THEN d.OBJECT_TYPE ELSE "")
      lay        == LayoutTable[norad]
  IN  IF launchDate = NullDate \/ ~isLeoOf(d) THEN Null
      ELSE [NORAD_CAT_ID |-> d.NORAD_CAT_ID, OBJECT_TYPE |-> d.OBJECT_TYPE,
            LAUNCH_DATE |-> d.LAUNCH_DATE, DECAY_DATE |-> d.DECAY_DATE,
            APOGEE |-> d.APOGEE, PERIOD |-> d.PERIOD,
            ORBIT_CENTER |-> d.ORBIT_CENTER,
            objectType |-> objectType, launchDate |-> launchDate,
            decayDate |-> decayDate, norad |-> norad,
            baseAngle |-> lay.baseAngle, baseRadius |-> lay.baseRadius,
            drift |-> lay.drift]

(***************************************************************************)
(* Active-set filter and subsampler (lines 277-290)                        *)
(***************************************************************************)
\* Array.prototype.filter: the positions from k on, in increasing order,
\* at which the callback returned true (keep[k] is its result at position k)
FilterIdx(keep, k) ==
  LET Kept(j) == keep[j]
  IN  SelectSeq([j \in 1 .. (Len(keep) - k + 1) |-> j + k - 1], Kept)

\* variant: month 12 instead of 11 (the date rolls into the next January)
endOfYearMonth12(year) == DateUTC(year, 12, 31, 86399)

\* variant: the first instant of the year
endOfYearStart(year) == DateUTC(year, 0, 1, 0)

\* t = new Date(Date.UTC(year, 11, 31, 23, 59, 59))
endOfYear(year) == DateUTC(year, 11, 31, 86399)

\* variant: a record is active only in the year of its launch
isActiveInLaunchYear(d, year, types) ==
  /\ d.objectType \in types
  /\ getUTCFullYear(d.launchDate) = year
  /\ (d.decayDate = NullDate \/ DateGT(d.decayDate, endOfYear(year)))

\* variant: the decay date is not tested
isActiveNoDecay(d, year, types) ==
  /\ d.objectType \in types
  /\ DateLE(d.launchDate, endOfYear(year))

\* the filter predicate of activeAtYear
isActive(d, year, types) ==
  /\ d.objectType \in types
  /\ DateLE(d.launchDate, endOfYear(year))
  /\ (d.decayDate = NullDate \/ DateGT(d.decayDate, endOfYear(year)))

\* activeAtYear(year): the records are objects of leoData, held by their
\* position in leoData
activeAtYear(recs, year, types) ==
  FilterIdx([k \in 1 .. Len(recs) |-> isActive(recs[k], year, types)], 1)

\* Math.ceil(a / b) for a >= 0, b > 0
Ceil(a, b) == (a + b - 1) \div b

\* variant: step = Math.floor(arr.length / maxCount)
subsampleFloor(arr, maxCount) ==
  IF Len(arr) <= maxCount THEN arr
  ELSE LET step == Len(arr) \div maxCount
           kept == FilterIdx([k \in 1 .. Len(arr) |-> (k - 1) % step = 0], 1)
       IN  [j \in 1 .. Len(kept) |-> arr[kept[j]]]

\* variant: keeps the positions with i % step === step - 1
subsampleLast(arr, maxCount) ==
  IF Len(arr) <= maxCount THEN arr
  ELSE LET step == Ceil(Len(arr), maxCount)
           kept == FilterIdx([k \in 1 .. Len(arr) |-> (k - 1) % step = step - 1], 1)
       IN  [j \in 1 .. Len(kept) |-> arr[kept[j]]]

\* variant: the first maxCount elements
subsampleHead(arr, maxCount) ==
  IF Len(arr) <= maxCount THEN arr
  ELSE SubSeq(arr, 1, maxCount)

\* subsample(arr, maxCount) for maxCount > 0; JavaScript positions are
\* zero-based, so position k of the sequence is index k - 1
subsample(arr, maxCount) ==
  IF Len(arr) <= maxCount THEN arr
  ELSE LET step == Ceil(Len(arr), maxCount)
           kept == FilterIdx([k \in 1 .. Len(arr) |-> (k - 1) % step = 0], 1)
       IN  [j \in 1 .. Len(kept) |-> arr[kept[j]]]

(***************************************************************************)
(* leoData = data.filter(Boolean).sort(...) (line 228)                     *)
(***************************************************************************)
\* insert r after every element whose launchDate is not later (stable sort)
RECURSIVE InsertByLaunch(_, _)
InsertByLaunch(sorted, r) ==
  IF sorted = <<>> THEN <<r>>
  ELSE IF DateLE(Head(sorted).launchDate, r.launchDate)
       THEN <<Head(sorted)>> \o InsertByLaunch(Tail(sorted), r)
       ELSE <<r>> \o sorted

RECURSIVE SortByLaunch(_)
SortByLaunch(seq) ==
  IF seq = <<>> THEN <<>>
  ELSE InsertByLaunch(SortByLaunch(SubSeq(seq, 1, Len(seq) - 1)), seq[Len(seq)])

SeqMin(f) == CHOOSE x \in {f[k] : k \in DOMAIN f} : \A y \in {f[k] : k \in DOMAIN f} : x <= y
SeqMax(f) == CHOOSE x \in {f[k] : k \in DOMAIN f} : \A y \in {f[k] : k \in DOMAIN f} : x >= y
Min(a, b) == IF a <= b THEN a ELSE b

(***************************************************************************)
(* State                                                                   *)
(***************************************************************************)
VARIABLES
  phase,          \* "loading" | "rejected" | "halted" | "ready"
  rowIdx,         \* i: index of the next data row handed to the accessor
  row,            \* d: the row last handed to the accessor during the parse
  data,           \* the rows kept by d3.csv (accessor results other than null)
  leoData,        \* the working set
  sliderMin,      \* slider attributes min, max and its current value
  sliderMax,
  sliderValue,
  selectedTypes,
  currentActive,  \* positions in leoData of the active records
  satSel,         \* the circles: [ref: position in leoData, pos: <<>> | <<t, n>>]
  countText,      \* the number shown by countText
  renderedNote,   \* <<>> for "", <<n>> for "showing n animated points"
  yearLabel,      \* the year shown, NoYear for "----"
  pinYear,        \* the year shown at the pin, NoYear for no text
  messages,       \* the paragraphs appended to the container
  outcome,        \* how the last module step or handler ended
  frame,          \* number of timer callbacks run so far
  call,           \* argument of the pure function under test (SpecRow, SpecSub)
  ret,            \* <<>> before the call, <<result>> after it
  rngT,           \* t: the state of the generator under test (SpecRng)
  mfPhase,        \* manufacturer view: "loading" | "loaded" | "failed"
  mfData,         \* _data, the value behind window.data
  mfRanking,      \* value of the #ranking-type dropdown
  mfSeries,       \* the series drawn in the chart
  mfDraws,        \* number of times the chart has been drawn
  mfConsole,      \* console.error entries of the loader
  mfMessages,     \* the texts appended to the #manufacturer container
  mfOutcome,      \* how the last loader step or handler ended
  mapPhase,       \* launch map: "loading" | "failed" | "initial" | "ready"
  mapRows,        \* rows of data/satcat_with_continent.csv
  mapValue,       \* value of the #continent dropdown
  mapSvg,         \* number of svg elements built so far
  mapDots,        \* the circles of the site layer: <<[site, count]>>
  mapBars,        \* the bar groups: <<[site, count, faces]>>
  mapLabels,      \* the label layer: count labels, site labels, titles, notes
  mapWarned,      \* the console.warn entries of the last draw
  mapQueue        \* the draws waiting for their animation frames

vars ==
  <<phase, rowIdx, row, data, leoData, sliderMin, sliderMax, sliderValue,
    selectedTypes, currentActive, satSel, countText, renderedNote, yearLabel,
    pinYear, messages, outcome, frame, call, ret, rngT,
    mfPhase, mfData, mfRanking, mfSeries, mfDraws, mfConsole, mfMessages,
    mfOutcome, mapPhase, mapRows, mapValue, mapSvg, mapDots, mapBars,
    mapLabels, mapWarned, mapQueue>>

viewVars ==
  <<currentActive, satSel, countText, renderedNote, yearLabel, pinYear>>

\* the state of the timeline, of the manufacturer view and of the launch map
timelineVars ==
  <<phase, rowIdx, row, data, leoData, sliderMin, sliderMax, sliderValue,
    selectedTypes, currentActive, satSel, countText, renderedNote, yearLabel,
    pinYear, messages, outcome, frame>>

harnessVars == <<call, ret, rngT>>

mfVars ==
  <<mfPhase, mfData, mfRanking, mfSeries, mfDraws, mfConsole, mfMessages,
    mfOutcome>>

mapVars ==
  <<mapPhase, mapRows, mapValue, mapSvg, mapDots, mapBars, mapLabels,
    mapWarned, mapQueue>>

NoYear == -1
NoRow == [none |-> TRUE]

\* the label layer with no element
NoLabels == [counts |-> <<>>, sites |-> <<>>, titles |-> <<>>, subtitles |-> 0, notes |-> 0]

SeqToSet(f) == {f[k] : k \in DOMAIN f}

(***************************************************************************)
(* Inputs of the model                                                     *)
(***************************************************************************)
Row(id, ty, launch, decay, apogee, period, center) ==
  [NORAD_CAT_ID |-> id, OBJECT_TYPE |-> ty, LAUNCH_DATE |-> launch,
   DECAY_DATE |-> decay, APOGEE |-> apogee, PERIOD |-> period,
   ORBIT_CENTER |-> center]

\* the rows the CSV file of the model is made of
FileRows ==
  { Row("1", "PAY",  "2000-01-01", "",           "500",   "90",   "EA"),
    Row("2", "DEB ", "2000-12-31", "2001-12-31", "abc",   "127",  "EA"),
    Row("",  "R/B",  "2001-02-31", "n/a",        "2000",  "128",  "EA"),
    Row("0", "PAY",  "2001-13-01", "2002-06-30", "",      "",     "EA"),
    Row("2", "PAY",  "2000-01-01", "2000-06-30", "36000", "90",   "EA"),
    Row("3", "UNK",  "2000-12-31", "",           "500",   "90",   "EA"),
    Row("1", "PAY",  "n/a",        "",           "500",   "90",   "EA"),
    Row("1", "PAY",  "",           "",           "500",   "90",   "EA"),
    Row("1", "PAY",  "2000-01-01", "",           "500",   "90",   "SU"),
    Row("1", "PAY",  "2000-01-01", "",           "2001",  "128",  "EA") }

\* new Date().getUTCFullYear() at load time
NowYears == {2001, 2002}

(***************************************************************************)
(* renderYear (lines 292-321)                                              *)
(***************************************************************************)
\* the keyed data join of line 297-311: a datum whose key is held by a circle
\* of the old selection (the first circle with that key, for the first datum
\* with that key) keeps that circle and its position; any other datum enters
\* with a new circle that has no position yet
JoinCircles(old, recs, visible) ==
  [j \in 1 .. Len(visible) |->
     LET key     == recs[visible[j]].norad
         first   == \A h \in 1 .. (j - 1) : recs[visible[h]].norad # key
         holders == {c \in 1 .. Len(old) : recs[old[c].ref].norad = key}
     IN  IF holders # {} /\ first
         THEN [ref |-> visible[j],
               pos |-> old[CHOOSE c \in holders : \A e \in holders : c <= e].pos]
         ELSE [ref |-> visible[j], pos |-> <<>>]]

\* the body of renderYear from line 297 on, for the active records and the
\* visible ones computed in lines 293-296
\* variant: the note is shown from MAX_RENDERED active records on
renderVisibleNoteAtLimit(recs, year, active, visible) ==
  /\ currentActive' = active
  /\ satSel' = JoinCircles(satSel, recs, visible)
  /\ countText' = Len(active)
  /\ renderedNote' = IF Len(active) >= MAX_RENDERED THEN <<Len(visible)>> ELSE <<>>
  /\ yearLabel' = year
  /\ pinYear' = year

renderVisible(recs, year, active, visible) ==
  /\ currentActive' = active
  /\ satSel' = JoinCircles(satSel, recs, visible)
  /\ countText' = Len(active)
  /\ renderedNote' = IF Len(active) > MAX_RENDERED THEN <<Len(visible)>> ELSE <<>>
  /\ yearLabel' = year
  /\ pinYear' = year

\* const visible = subsample(active, MAX_RENDERED)
renderActive(recs, year, active) ==
  renderVisible(recs, year, active, subsample(active, MAX_RENDERED))

\* recs and types are leoData and selectedTypes at the time of the call
renderYear(recs, year, types) ==
  renderActive(recs, year, activeAtYear(recs, year, types))

(***************************************************************************)
(* Actions                                                                 *)
(***************************************************************************)
\* the manufacturer view after the evaluation of its module up to loadData()
\* (lines 9-83, 122)
MfInit ==
  /\ mfPhase = "loading"
  /\ mfData = <<>>
  /\ mfRanking = "manufacturer"
  /\ mfSeries = <<>>
  /\ mfDraws = 0
  /\ mfConsole = <<>>
  /\ mfMessages = <<>>
  /\ mfOutcome = "ok"

\* the launch map when renderLaunchMap waits for its two files
MapInit ==
  /\ mapPhase = "loading"
  /\ mapRows = <<>>
  /\ mapValue = ""
  /\ mapSvg = 0
  /\ mapDots = <<>>
  /\ mapBars = <<>>
  /\ mapLabels = NoLabels
  /\ mapWarned = <<>>
  /\ mapQueue = <<>>

MainInit ==
  /\ MfInit
  /\ MapInit
  /\ phase = "loading"
  /\ rowIdx = 0
  /\ row = NoRow
  /\ data = <<>>
  /\ leoData = <<>>
  /\ sliderMin = 0
  /\ sliderMax = 100
  /\ sliderValue = 50
  /\ selectedTypes = SeqToSet(TYPE_OPTIONS)
  /\ currentActive = <<>>
  /\ satSel = <<>>
  /\ countText = 0
  /\ renderedNote = <<>>
  /\ yearLabel = NoYear
  /\ pinYear = NoYear
  /\ messages = <<>>
  /\ outcome = "ok"
  /\ frame = 0

Init ==
  /\ MainInit
  /\ call = <<>>
  /\ ret = <<>>
  /\ rngT = <<0, 0>>

\* the fetch of data/satcat.csv fails: the awaited promise rejects and the
\* module evaluation ends with that error (line 196)
FetchFail ==
  /\ phase = "loading"
  /\ rowIdx = 0
  /\ phase' = "rejected"
  /\ outcome' = "fetch error"
  /\ UNCHANGED <<rowIdx, row, data, leoData, sliderMin, sliderMax, sliderValue,
                 selectedTypes, messages, frame, call, ret, rngT>>
  /\ UNCHANGED viewVars
  /\ UNCHANGED <<mfVars, mapVars>>

\* d3.csv hands data row i to the accessor and drops the row when the
\* accessor returns null (lines 196-226)
ParseRow(d) ==
  /\ phase = "loading"
  /\ rowIdx < MaxRows
  /\ LET r == Accessor(d, rowIdx)
     IN  data' = IF r = Null THEN data ELSE Append(data, r)
  /\ rowIdx' = rowIdx + 1
  /\ row' = d
  /\ outcome' = "ok"
  /\ UNCHANGED <<phase, leoData, sliderMin, sliderMax, sliderValue,
                 selectedTypes, messages, frame, call, ret, rngT>>
  /\ UNCHANGED viewVars
  /\ UNCHANGED <<mfVars, mapVars>>

\* the module continues after the await with no usable record (lines 228-232)
FinishLoadEmpty ==
  /\ phase = "loading"
  /\ SortByLaunch(data) = <<>>
  /\ leoData' = SortByLaunch(data)
  /\ messages' = Append(messages, "No LEO records found.")
  /\ outcome' = "Error: No usable LEO data."
  /\ phase' = "halted"
  /\ row' = NoRow
  /\ UNCHANGED <<rowIdx, data, sliderMin, sliderMax, sliderValue,
                 selectedTypes, frame, call, ret, rngT>>
  /\ UNCHANGED viewVars
  /\ UNCHANGED <<mfVars, mapVars>>

\* the module continues after the await (lines 228-326): working set, slider
\* range, input handler, first renderYear, timer
FinishLoad(now) ==
  /\ phase = "loading"
  /\ SortByLaunch(data) # <<>>
  /\ leoData' = SortByLaunch(data)
  /\ LET years   == [k \in DOMAIN leoData' |-> getUTCFullYear(leoData'[k].launchDate)]
         minYear == SeqMin(years)
         maxYear == Min(now, SeqMax(years))
     IN  /\ sliderMin' = minYear
         /\ sliderMax' = maxYear
         /\ sliderValue' = minYear
         /\ renderYear(leoData', minYear, selectedTypes)
  /\ phase' = "ready"
  /\ row' = NoRow
  /\ outcome' = "ok"
  /\ UNCHANGED <<rowIdx, data, selectedTypes, messages, frame, call, ret, rngT>>
  /\ UNCHANGED <<mfVars, mapVars>>

\* the years the slider can be set to (a range with max < min holds min only)
SliderYears == {sliderMin} \cup (sliderMin .. sliderMax)

\* slider "input" handler (line 323)
SliderInput(year) ==
  /\ phase = "ready"
  /\ year \in SliderYears
  /\ sliderValue' = year
  /\ renderYear(leoData, year, selectedTypes)
  /\ outcome' = "ok"
  /\ UNCHANGED <<phase, rowIdx, row, data, leoData, sliderMin, sliderMax,
                 selectedTypes, messages, frame, call, ret, rngT>>
  /\ UNCHANGED <<mfVars, mapVars>>

\* checkbox "change" handler (lines 63-69); it is registered before the
\* await, and renderYear reads leoData and assigns currentActive, which are
\* not initialised before the module has passed lines 228 and 275
CheckboxChange(opt) ==
  /\ phase # "loading" \/ rowIdx = 0
  /\ selectedTypes' = IF opt \in selectedTypes THEN selectedTypes \ {opt}
                      ELSE selectedTypes \cup {opt}
  /\ IF phase = "ready"
     THEN /\ renderYear(leoData, sliderValue, selectedTypes')
          /\ outcome' = "ok"
     ELSE /\ outcome' = "ReferenceError"
          /\ UNCHANGED viewVars
  /\ UNCHANGED <<phase, rowIdx, row, data, leoData, sliderMin, sliderMax,
                 sliderValue, messages, frame, call, ret, rngT>>
  /\ UNCHANGED <<mfVars, mapVars>>

\* variant: the callback stores the angle it computed in the record itself
TickMovesRecords ==
  /\ phase = "ready"
  /\ frame < MaxTicks
  /\ frame' = frame + 1
  /\ leoData' = [k \in DOMAIN leoData |-> [leoData[k] EXCEPT !.baseAngle = <<frame'>>]]
  /\ satSel' = satSel
  /\ outcome' = "ok"
  /\ UNCHANGED <<phase, rowIdx, row, data, sliderMin, sliderMax,
                 sliderValue, selectedTypes, currentActive, countText,
                 renderedNote, yearLabel, pinYear, messages, call, ret, rngT>>
  /\ UNCHANGED <<mfVars, mapVars>>

\* variant: the callback empties the active set after moving the points
TickClearsActive ==
  /\ phase = "ready"
  /\ frame < MaxTicks
  /\ frame' = frame + 1
  /\ satSel' = IF currentActive = <<>> THEN satSel
               ELSE [j \in DOMAIN satSel |->
                       [satSel[j] EXCEPT !.pos = <<frame', Len(currentActive)>>]]
  /\ currentActive' = <<>>
  /\ outcome' = "ok"
  /\ UNCHANGED <<phase, rowIdx, row, data, leoData, sliderMin, sliderMax,
                 sliderValue, selectedTypes, countText,
                 renderedNote, yearLabel, pinYear, messages, call, ret, rngT>>
  /\ UNCHANGED <<mfVars, mapVars>>

\* one point of the band after t seconds: the angle and radius are functions
\* of the record and of <<t, n>>, n the size of the active set (crowdFactor)
\* timer callback (lines 326-334)
Tick ==
  /\ phase = "ready"
  /\ frame < MaxTicks
  /\ frame' = frame + 1
  /\ satSel' = IF currentActive = <<>> THEN satSel
               ELSE [j \in DOMAIN satSel |->
                       [satSel[j] EXCEPT !.pos = <<frame', Len(currentActive)>>]]
  /\ outcome' = "ok"
  /\ UNCHANGED <<phase, rowIdx, row, data, leoData, sliderMin, sliderMax,
                 sliderValue, selectedTypes, currentActive, countText,
                 renderedNote, yearLabel, pinYear, messages, call, ret, rngT>>
  /\ UNCHANGED <<mfVars, mapVars>>

Next ==
  \/ FetchFail
  \/ \E d \in FileRows : ParseRow(d)
  \/ FinishLoadEmpty
  \/ \E now \in NowYears : FinishLoad(now)
  \/ \E year \in SliderYears : SliderInput(year)
  \/ \E opt \in SeqToSet(TYPE_OPTIONS) : CheckboxChange(opt)
  \/ Tick

Spec == Init /\ [][Next]_vars

(***************************************************************************)
(* The row accessor as a pure function: one call on one row                *)
(***************************************************************************)
IdCells     == {Undefined, "", "0", "abc", "2"}
TypeCells   == {Undefined, "PAY", "DEB "}
LaunchCells == {Undefined, "", "n/a", "2000-01-01", "2001-02-31"}
DecayCells  == {"", "n/a", "2001-12-31"}
ApogeeCells == {Undefined, "", " ", "abc", "Infinity", "-1", "2000", "2001"}
PeriodCells == {Undefined, "", "abc", "127", "128"}
CenterCells == {Undefined, "EA", "SU"}

RowDomain ==
  { Row(id, ty, la, de, ap, pe, ce) :
      id \in IdCells, ty \in TypeCells, la \in LaunchCells, de \in DecayCells,
      ap \in ApogeeCells, pe \in PeriodCells, ce \in CenterCells }

RowInit ==
  /\ MainInit
  /\ call \in [d : RowDomain, i : 0 .. (MaxRows - 1)]
  /\ ret = <<>>
  /\ rngT = <<0, 0>>

ApplyAccessor ==
  /\ ret = <<>>
  /\ ret' = <<Accessor(call.d, call.i)>>
  /\ UNCHANGED <<phase, rowIdx, row, data, leoData, sliderMin, sliderMax,
                 sliderValue, selectedTypes, messages, outcome, frame, call, rngT>>
  /\ UNCHANGED viewVars
  /\ UNCHANGED <<mfVars, mapVars>>

RowNext == ApplyAccessor

SpecRow == RowInit /\ [][RowNext]_vars

(***************************************************************************)
(* subsample as a pure function: one call on one sequence                  *)
(***************************************************************************)
SubInputs == UNION {[1 .. n -> {1, 2}] : n \in 0 .. MaxLen}

SubInit ==
  /\ MainInit
  /\ call \in [arr : SubInputs, maxCount : 1 .. MaxM]
  /\ ret = <<>>
  /\ rngT = <<0, 0>>

ApplySubsample ==
  /\ ret = <<>>
  /\ ret' = <<subsample(call.arr, call.maxCount)>>
  /\ UNCHANGED <<phase, rowIdx, row, data, leoData, sliderMin, sliderMax,
                 sliderValue, selectedTypes, messages, outcome, frame, call, rngT>>
  /\ UNCHANGED viewVars
  /\ UNCHANGED <<mfVars, mapVars>>

SubNext == ApplySubsample

SpecSub == SubInit /\ [][SubNext]_vars

(***************************************************************************)
(* One generator rng = mulberry32(seed) and its successive calls           *)
(***************************************************************************)
Seeds == (0 .. MaxSeed) \cup {-1, -3, 1000, 25544, 65535, 65536, 2147483647}

RngInit ==
  /\ MainInit
  /\ call \in [seed : Seeds, wraps : 0 .. MaxWraps, half : BOOLEAN]
  /\ ret = <<>>
  /\ rngT = mulberry32OfNumber(SeedNumber(call.seed, call.wraps, call.half))

\* one call rng(): the state is advanced and the draw is returned
RngCall ==
  /\ Len(ret) < MaxCalls
  /\ rngT' = rngStep(rngT)
  /\ ret' = Append(ret, rngOut(rngT'))
  /\ UNCHANGED <<phase, rowIdx, row, data, leoData, sliderMin, sliderMax,
                 sliderValue, selectedTypes, messages, outcome, frame, call>>
  /\ UNCHANGED viewVars
  /\ UNCHANGED <<mfVars, mapVars>>

RngNext == RngCall

SpecRng == RngInit /\ [][RngNext]_vars

(***************************************************************************)
(* The handlers on a large working set (more than MAX_RENDERED records)    *)
(***************************************************************************)
\* record k of a working set of n records, with the fields renderYear reads:
\* the types alternate; the first four records are launched in 1998, 1999,
\* 2000 and 2001 and the others in 2002; the first record decays in 1999, the
\* second in 2001, the others are still in orbit
BigRec(k) ==
  [norad      |-> k,
   objectType |-> TYPE_OPTIONS[(k % 3) + 1],
   launchDate |-> IF k <= 4 THEN DateUTC(1997 + k, 0, 1, 0) ELSE DateUTC(2002, 0, 1, 0),
   decayDate  |-> IF k = 1 THEN DateUTC(1999, 5, 30, 0)
                  ELSE IF k = 2 THEN DateUTC(2001, 5, 30, 0)
                  ELSE NullDate]

BigData(n) == [k \in 1 .. n |-> BigRec(k)]

\* MAX_RENDERED - 1, MAX_RENDERED, MAX_RENDERED + 1, ... records in orbit
BigSizes == {MAX_RENDERED + e : e \in 1 .. (MaxOver + 1)}

\* the timeline on a working set of n records, slider at the first year,
\* after the user has unchecked the three types (nothing is active)
BigInit ==
  /\ MfInit
  /\ MapInit
  /\ \E n \in BigSizes : data = BigData(n) /\ rowIdx = n
  /\ leoData = data
  /\ phase = "ready"
  /\ row = NoRow
  /\ sliderMin = 1998
  /\ sliderMax = 2002
  /\ sliderValue = 1998
  /\ selectedTypes = {}
  /\ currentActive = <<>>
  /\ satSel = <<>>
  /\ countText = 0
  /\ renderedNote = <<>>
  /\ yearLabel = 1998
  /\ pinYear = 1998
  /\ messages = <<>>
  /\ outcome = "ok"
  /\ frame = 0
  /\ call = <<>>
  /\ ret = <<>>
  /\ rngT = <<0, 0>>

BigNext ==
  \/ \E year \in SliderYears : SliderInput(year)
  \/ \E opt \in SeqToSet(TYPE_OPTIONS) : CheckboxChange(opt)

SpecBig == BigInit /\ [][BigNext]_vars

(***************************************************************************)
(* The handlers on a working set of 10,000 records                         *)
(***************************************************************************)
\* record k of the working set, with the fields renderYear reads: one rocket
\* body, one piece of debris and payloads, all launched in 2002 and in orbit
TenKRec(k) ==
  [norad      |-> k,
   objectType |-> IF k = 1 THEN "R/B" ELSE IF k = 2 THEN "DEB" ELSE "PAY",
   launchDate |-> DateUTC(2002, 0, 1, 0),
   decayDate  |-> NullDate]

TenKData(n) == [k \in 1 .. n |-> TenKRec(k)]

\* 10,000 records, and the small working sets
TenKSizes == {10000} \cup (1 .. MaxSmall)

\* the timeline on a working set of n records launched in one year, after
\* the user has unchecked the three types (nothing is active)
TenKInit ==
  /\ MfInit
  /\ MapInit
  /\ \E n \in TenKSizes : data = TenKData(n) /\ rowIdx = n
  /\ leoData = data
  /\ phase = "ready"
  /\ row = NoRow
  /\ sliderMin = 2002
  /\ sliderMax = 2002
  /\ sliderValue = 2002
  /\ selectedTypes = {}
  /\ currentActive = <<>>
  /\ satSel = <<>>
  /\ countText = 0
  /\ renderedNote = <<>>
  /\ yearLabel = 2002
  /\ pinYear = 2002
  /\ messages = <<>>
  /\ outcome = "ok"
  /\ frame = 0
  /\ call = <<>>
  /\ ret = <<>>
  /\ rngT = <<0, 0>>

TenKNext ==
  \/ \E year \in SliderYears : SliderInput(year)
  \/ \E opt \in SeqToSet(TYPE_OPTIONS) : CheckboxChange(opt)

SpecTenK == TenKInit /\ [][TenKNext]_vars

(***************************************************************************)
(* The handlers on five records launched in 1965, 1980, 1999, 2005, 2020   *)
(***************************************************************************)
FiveLaunchYears == <<1965, 1980, 1999, 2005, 2020>>

\* the pairs of records launched before 2010 that decay in 2010, the days of
\* 2010 they decay on, and the types of the five records
FiveDecayed == {S \in SUBSET (1 .. 4) : Cardinality(S) = 2}
FiveDecayDays == {DateUTC(2010, 0, 1, 0), DateUTC(2010, 11, 31, 0)}
FiveTypings ==
  { <<"PAY", "PAY", "PAY", "PAY", "PAY">>,
    <<"PAY", "R/B", "DEB", "PAY", "R/B">>,
    <<"DEB", "DEB", "R/B", "R/B", "PAY">> }

\* the working set, in launch order, with the fields renderYear reads
FiveData(decayed, day, typing) ==
  [k \in 1 .. 5 |->
     [norad      |-> k,
      objectType |-> typing[k],
      launchDate |-> DateUTC(FiveLaunchYears[k], 5, 15, 0),
      decayDate  |-> IF k \in decayed THEN day ELSE NullDate]]

\* the timeline on the five records, slider at the first year, after the
\* user has unchecked the three types (nothing is active)
FiveInit ==
  /\ MfInit
  /\ MapInit
  /\ \E decayed \in FiveDecayed, day \in FiveDecayDays, typing \in FiveTypings :
       data = FiveData(decayed, day, typing)
  /\ rowIdx = 5
  /\ leoData = data
  /\ phase = "ready"
  /\ row = NoRow
  /\ sliderMin = 1965
  /\ sliderMax = 2020
  /\ sliderValue = 1965
  /\ selectedTypes = {}
  /\ currentActive = <<>>
  /\ satSel = <<>>
  /\ countText = 0
  /\ renderedNote = <<>>
  /\ yearLabel = 1965
  /\ pinYear = 1965
  /\ messages = <<>>
  /\ outcome = "ok"
  /\ frame = 0
  /\ call = <<>>
  /\ ret = <<>>
  /\ rngT = <<0, 0>>

FiveNext ==
  \/ \E year \in SliderYears : SliderInput(year)
  \/ \E opt \in SeqToSet(TYPE_OPTIONS) : CheckboxChange(opt)

SpecFive == FiveInit /\ [][FiveNext]_vars

(***************************************************************************)
(* The manufacturer view (src/js/manufacturer.js)                          *)
(***************************************************************************)
\* null, for a field that holds a string otherwise
NullStr == "<null>"

\* String.prototype.trim on the cells of the two other views
TrimCell(s) ==
  CASE s = " Airbus " -> "Airbus"
    [] s = " "        -> ""
    [] s = "Asia "    -> "Asia"
    [] s = " tymsc "  -> "tymsc"
    [] OTHER          -> s

\* String.prototype.toUpperCase on those cells
UpperCell(s) ==
  CASE s = "n/a"   -> "N/A"
    [] s = "tymsc" -> "TYMSC"
    [] OTHER       -> s

\* a ?? b
Coalesce(a, b) == IF a = Undefined \/ a = NullStr THEN b ELSE a

\* lines 90-98 on the launch-date cells of the model: the year read from the
\* first four characters, <<>> for null
YearOfCell(ldateRaw) ==
  CASE ldateRaw = "1999 Jan 05" -> <<1999>>
    [] ldateRaw = "2000 Feb 29" -> <<2000>>
    [] ldateRaw = "20a0 Mar 01" -> <<20>>
    [] OTHER                    -> <<>>

MfRow(ldate, man, owner, state) ==
  [LDate |-> ldate, Manufacturer |-> man, OWNER |-> owner, State |-> state]

\* the callback of raw.map (lines 88-112); the result keeps the cells
MfParse(d) ==
  LET ldateRaw     == Coalesce(d.LDate, "")
      rawMan       == Coalesce(d.Manufacturer, "")
      trimmedMan   == IF Truthy(rawMan) THEN TrimCell(rawMan) ELSE ""
      manufacturer == IF Truthy(trimmedMan) /\ trimmedMan # "-" /\ UpperCell(trimmedMan) # "N/A"
                      THEN trimmedMan ELSE NullStr
      rawOwner     == Coalesce(d.OWNER, "")
      owner        == IF Truthy(rawOwner) /\ Truthy(TrimCell(rawOwner))
                      THEN TrimCell(rawOwner) ELSE "Unknown"
      rawState     == Coalesce(d.State, "")
      state        == IF Truthy(rawState) /\ Truthy(TrimCell(rawState))
                      THEN TrimCell(rawState) ELSE owner
  IN  [LDate |-> d.LDate, Manufacturer |-> d.Manufacturer, OWNER |-> d.OWNER,
       State |-> d.State, year |-> YearOfCell(ldateRaw),
       manufacturer |-> manufacturer, owner |-> owner, state |-> state]

\* raw.map(...).filter(d => d.year !== null); the year is then a number
MfParsed(raw) ==
  LET all  == [k \in DOMAIN raw |-> MfParse(raw[k])]
      kept == FilterIdx([k \in DOMAIN raw |-> all[k].year # <<>>], 1)
  IN  [j \in DOMAIN kept |-> [all[kept[j]] EXCEPT !.year = all[kept[j]].year[1]]]

\* the order of Array.prototype.sort() on the group keys of the model
KeyRank(g) ==
  CASE g = "Airbus"  -> 1
    [] g = "Boeing"  -> 2
    [] g = "SU"      -> 3
    [] g = "US"      -> 4
    [] g = "Unknown" -> 5
    [] OTHER         -> 6

\* the elements of a finite set in increasing order of rank
RECURSIVE SortedBy(_, _)
SortedBy(S, rank) ==
  IF S = {} THEN <<>>
  ELSE LET x == CHOOSE e \in S : \A f \in S : rank[e] <= rank[f]
       IN  <<x>> \o SortedBy(S \ {x}, rank)

\* d[groupKey]
GroupOf(d, groupKey) == IF groupKey = "state" THEN d.state ELSE d.manufacturer

\* variant: a series has values for the years of its own records only
MfSeriesOfSparse(dat, groupKey) ==
  LET keySet  == {GroupOf(dat[k], groupKey) : k \in DOMAIN dat} \ {NullStr}
      sorted  == SortedBy(keySet, [g \in keySet |-> KeyRank(g)])
      groups  == IF groupKey = "state" /\ "Unknown" \notin keySet
                 THEN Append(sorted, "Unknown") ELSE sorted
  IN  [i \in DOMAIN groups |->
         LET own   == {dat[k].year : k \in {h \in DOMAIN dat : GroupOf(dat[h], groupKey) = groups[i]}}
             years == SortedBy(own, [y \in own |-> y])
         IN  [key    |-> groups[i],
              values |-> [j \in DOMAIN years |->
                            [year  |-> years[j],
                             count |-> Cardinality({k \in DOMAIN dat :
                                          /\ GroupOf(dat[k], groupKey) = groups[i]
                                          /\ dat[k].year = years[j]})]]]]

\* lines 132-159: the series of updateVisualization
MfSeriesOf(dat, groupKey) ==
  LET yearSet == {dat[k].year : k \in DOMAIN dat}
      years   == SortedBy(yearSet, [y \in yearSet |-> y])
      keySet  == {GroupOf(dat[k], groupKey) : k \in DOMAIN dat} \ {NullStr}
      sorted  == SortedBy(keySet, [g \in keySet |-> KeyRank(g)])
      groups  == IF groupKey = "state" /\ "Unknown" \notin keySet
                 THEN Append(sorted, "Unknown") ELSE sorted
  IN  [i \in DOMAIN groups |->
         [key    |-> groups[i],
          values |-> [j \in DOMAIN years |->
                        [year  |-> years[j],
                         count |-> Cardinality({k \in DOMAIN dat :
                                      /\ GroupOf(dat[k], groupKey) = groups[i]
                                      /\ dat[k].year = years[j]})]]]]

\* variant: no early return on an empty dataset
updateVisualizationUnguarded(dat, selected) ==
  /\ mfSeries' = MfSeriesOf(dat, IF selected = "owner" THEN "state" ELSE "manufacturer")
  /\ mfDraws' = mfDraws + 1

\* updateVisualization (lines 124-227) for the dataset dat and the dropdown
\* value selected: nothing happens on an empty dataset
updateVisualization(dat, selected) ==
  IF dat = <<>>
  THEN UNCHANGED <<mfSeries, mfDraws>>
  ELSE /\ mfSeries' = MfSeriesOf(dat, IF selected = "owner" THEN "state" ELSE "manufacturer")
       /\ mfDraws' = mfDraws + 1

\* the rows of data/satcat.tsv in the model
MfRows ==
  { MfRow("1999 Jan 05", "Boeing",   "US", "US"),
    MfRow("1999 Jan 05", " Airbus ", "",   ""),
    MfRow("2000 Feb 29", "-",        "SU", " "),
    MfRow("2000 Feb 29", "n/a",      "US", Undefined),
    MfRow("",            "Boeing",   "US", "US"),
    MfRow("20a0 Mar 01", Undefined,  Undefined, "SU") }

MfFiles == UNION {[1 .. n -> MfRows] : n \in 0 .. MaxMfRows}

\* variant: the promise chain has no catch callback
MfLoadFailUnhandled ==
  /\ mfPhase = "loading"
  /\ mfPhase' = "failed"
  /\ mfOutcome' = "unhandled rejection"
  /\ UNCHANGED <<mfData, mfRanking, mfSeries, mfDraws, mfConsole, mfMessages>>
  /\ UNCHANGED <<timelineVars, harnessVars, mapVars>>

\* d3.tsv rejects (network error, error status, unreadable body): the catch
\* callback of lines 116-119
MfLoadFail ==
  /\ mfPhase = "loading"
  /\ mfPhase' = "failed"
  /\ mfConsole' = Append(mfConsole, "Error loading satcat.tsv:")
  /\ mfMessages' = Append(mfMessages, "Failed to load satellite data. See console for details.")
  /\ mfOutcome' = "ok"
  /\ UNCHANGED <<mfData, mfRanking, mfSeries, mfDraws>>
  /\ UNCHANGED <<timelineVars, harnessVars, mapVars>>

\* d3.tsv resolves with the rows raw: the then callback of lines 87-115; the
\* assignment to data runs the setter of lines 69-72
MfLoad(raw) ==
  /\ mfPhase = "loading"
  /\ mfPhase' = "loaded"
  /\ mfData' = MfParsed(raw)
  /\ updateVisualization(mfData', mfRanking)
  /\ mfOutcome' = "ok"
  /\ UNCHANGED <<mfRanking, mfConsole, mfMessages>>
  /\ UNCHANGED <<timelineVars, harnessVars, mapVars>>

\* "change" on #ranking-type (lines 75-83); the listener is attached when the
\* module is evaluated, before the data has arrived
MfRankingChange(v) ==
  /\ v # mfRanking
  /\ mfDraws < MaxDraws
  /\ mfRanking' = v
  /\ updateVisualization(mfData, v)
  /\ mfOutcome' = "ok"
  /\ UNCHANGED <<mfPhase, mfData, mfConsole, mfMessages>>
  /\ UNCHANGED <<timelineVars, harnessVars, mapVars>>

MfNext ==
  \/ MfLoadFail
  \/ \E raw \in MfFiles : MfLoad(raw)
  \/ \E v \in {"manufacturer", "owner"} : MfRankingChange(v)

SpecMfr == Init /\ [][MfNext]_vars

(***************************************************************************)
(* The launch map: what its versions share                                 *)
(***************************************************************************)
VALID_CONTINENTS ==
  <<"Asia", "Europe", "Africa", "North America", "South America", "Oceania",
    "Antarctica">>

\* the sites of the model that have an entry in LAUNCH_SITE_COORDS
LAUNCH_SITE_COORDS == {"PLMSC", "TYMSC", "AFETR"}

\* whether the projection of the site under the view of the continent lies
\* within the bounds of the drawing: Plesetsk and Baikonur do under the views
\* of Asia and Europe, Cape Canaveral does not
InView(continent, site) == site \in {"PLMSC", "TYMSC"}

MapRow(continent, site) == [CONTINENT |-> continent, LAUNCH_SITE |-> site]

\* normalizeSiteCode
normalizeSiteCode(value) == UpperCell(TrimCell(Coalesce(value, "")))

\* the elements of a sequence, each once, in the order of first occurrence
DistinctSeq(seq) ==
  LET kept == FilterIdx([k \in DOMAIN seq |-> \A h \in 1 .. (k - 1) : seq[h] # seq[k]], 1)
  IN  [j \in DOMAIN kept |-> seq[kept[j]]]

\* the elements of a sequence that satisfy keep, in order
FilterSeq(seq, keep) ==
  LET kept == FilterIdx([k \in DOMAIN seq |-> keep[k]], 1)
  IN  [j \in DOMAIN kept |-> seq[kept[j]]]

\* sort((a, b) => d3.descending(a.count, b.count)): a stable sort
RECURSIVE InsertByCount(_, _)
InsertByCount(sorted, r) ==
  IF sorted = <<>> THEN <<r>>
  ELSE IF Head(sorted).count >= r.count
       THEN <<Head(sorted)>> \o InsertByCount(Tail(sorted), r)
       ELSE <<r>> \o sorted

RECURSIVE SortByCount(_)
SortByCount(seq) ==
  IF seq = <<>> THEN <<>>
  ELSE InsertByCount(SortByCount(SubSeq(seq, 1, Len(seq) - 1)), seq[Len(seq)])

\* buildSiteCounts(rows, continent)
buildSiteCounts(rows, continent) ==
  LET filtered == FilterSeq(rows, [k \in DOMAIN rows |->
                    TrimCell(Coalesce(rows[k].CONTINENT, "")) = continent])
      codes    == [k \in DOMAIN filtered |-> normalizeSiteCode(filtered[k].LAUNCH_SITE)]
      keys     == DistinctSeq(codes)
      rolled   == [j \in DOMAIN keys |->
                     [site  |-> keys[j],
                      count |-> Cardinality({k \in DOMAIN codes : codes[k] = keys[j]})]]
  IN  SortByCount(FilterSeq(rolled, [j \in DOMAIN rolled |-> rolled[j].site # ""]))

\* the codes pushed to missingCodes during the scan of the site counts
missingCodesOf(siteCounts) ==
  LET all == [j \in DOMAIN siteCounts |-> siteCounts[j].site]
  IN  FilterSeq(all, [j \in DOMAIN all |-> all[j] \notin LAUNCH_SITE_COORDS])

\* variant: the scan stops at the first site without coordinates
plottedStopAtMissing(siteCounts, continent) ==
  FilterSeq(siteCounts, [j \in DOMAIN siteCounts |->
    /\ \A h \in 1 .. j : siteCounts[h].site \in LAUNCH_SITE_COORDS
    /\ InView(continent, siteCounts[j].site)])

\* the sites kept by the scan: coordinates known, projection within bounds
plottedOf(siteCounts, continent) ==
  FilterSeq(siteCounts, [j \in DOMAIN siteCounts |->
    /\ siteCounts[j].site \in LAUNCH_SITE_COORDS
    /\ InView(continent, siteCounts[j].site)])

\* the console.warn of a draw: nothing, or the number and the list of the
\* distinct missing codes
warningOf(missingCodes) ==
  IF missingCodes = <<>> THEN <<>>
  ELSE LET uniqueMissing == DistinctSeq(missingCodes)
       IN  <<[n |-> Len(uniqueMissing), codes |-> uniqueMissing]>>

\* continentOptions
continentOptions(rows) ==
  LET present == {TrimCell(Coalesce(rows[k].CONTINENT, "")) : k \in DOMAIN rows}
  IN  FilterSeq(VALID_CONTINENTS, [j \in DOMAIN VALID_CONTINENTS |-> VALID_CONTINENTS[j] \in present])

\* initialContinent, for defaultContinent = "Asia"
initialContinent(rows) ==
  IF "Asia" \in SeqToSet(continentOptions(rows)) THEN "Asia"
  ELSE IF continentOptions(rows) # <<>> THEN continentOptions(rows)[1]
  ELSE "Asia"

\* the value of the dropdown after dropdown.property("value", v)
SelectValue(rows, v) == IF v \in SeqToSet(continentOptions(rows)) THEN v ELSE ""

\* the rows of data/satcat_with_continent.csv in the model
MapRowsOfModel ==
  { MapRow("Asia",   "TYMSC"),
    MapRow("Asia ",  " tymsc "),
    MapRow("Asia",   "XXX"),
    MapRow("Asia",   ""),
    MapRow("Europe", "PLMSC"),
    MapRow("Europe", "TYMSC"),
    MapRow("Europe", "AFETR"),
    MapRow("Mars",   "TYMSC") }

MapFiles == UNION {[1 .. n -> MapRowsOfModel] : n \in 0 .. MaxMapRows}

\* one bar group per datum, with the three faces appended by one draw
BarsOf(barsData) ==
  [j \in DOMAIN barsData |->
     [site |-> barsData[j].site, count |-> barsData[j].count, faces |-> 3]]

SitesOf(barsData) == [j \in DOMAIN barsData |-> barsData[j].site]

\* Promise.all rejects: renderLaunchMap ends with that error, nothing is drawn
MapLoadFail ==
  /\ mapPhase = "loading"
  /\ mapPhase' = "failed"
  /\ UNCHANGED <<mapRows, mapValue, mapSvg, mapDots, mapBars, mapLabels,
                 mapWarned, mapQueue>>
  /\ UNCHANGED <<timelineVars, harnessVars, mfVars>>

(***************************************************************************)
(* The launch map with the asynchronous draw (src/unnamed/part_000)        *)
(***************************************************************************)
\* draw(continent) up to its await (lines 206-286): the layers are cleared,
\* the sites are scanned, the dots are joined and the draw waits for two
\* animation frames
asyncDrawStart(rows, continent) ==
  LET siteCounts     == buildSiteCounts(rows, continent)
      missingCodes   == missingCodesOf(siteCounts)
      projectedSites == plottedOf(siteCounts, continent)
  IN  /\ mapDots' = projectedSites
      /\ mapBars' = <<>>
      /\ mapLabels' = NoLabels
      /\ mapWarned' = warningOf(missingCodes)
      /\ mapQueue' = Append(mapQueue,
           [continent |-> continent, sites |-> projectedSites,
            missing |-> missingCodes # <<>>, frames |-> 2])

\* the join of lines 308-312 and the three appends of lines 315-372: a bar
\* group that is already there for a site keeps its faces and gets three more
asyncBars(old, barsData) ==
  [j \in DOMAIN barsData |->
     LET holders == {c \in DOMAIN old : old[c].site = barsData[j].site}
     IN  [site  |-> barsData[j].site,
          count |-> barsData[j].count,
          faces |-> 3 + (IF holders = {} THEN 0
                         ELSE old[CHOOSE c \in holders : \A e \in holders : c <= e].faces)]]

\* draw(continent) after its await (lines 289-423) on the bars and labels
\* view: measured tells whether the dots of this draw could be measured
asyncDrawResume(view, e, measured) ==
  LET barsData == IF measured THEN e.sites ELSE <<>>
  IN  [bars   |-> asyncBars(view.bars, barsData),
       labels |-> [counts    |-> barsData,
                   sites     |-> SitesOf(barsData),
                   titles    |-> Append(view.labels.titles, e.continent),
                   subtitles |-> view.labels.subtitles + 1,
                   notes     |-> view.labels.notes + (IF e.missing THEN 1 ELSE 0)]]

\* one animation frame: the callbacks registered before it run in order; a
\* draw that has waited two frames resumes. Only the draw started last still
\* has its dots in the document; ctm tells whether getScreenCTM gives a
\* matrix for a circle that is no longer in the document
RECURSIVE asyncFrame(_, _, _, _)
asyncFrame(queue, k, view, ctm) ==
  IF k > Len(queue) THEN view
  ELSE IF queue[k].frames > 1 THEN asyncFrame(queue, k + 1, view, ctm)
  ELSE asyncFrame(queue, k + 1,
                  asyncDrawResume(view, queue[k], k = Len(queue) \/ ctm), ctm)

\* the draws still waiting after a frame
WaitingAfterFrame(queue) ==
  LET rest == FilterSeq(queue, [k \in DOMAIN queue |-> queue[k].frames > 1])
  IN  [j \in DOMAIN rest |-> [rest[j] EXCEPT !.frames = 1]]

\* the two files arrive (lines 186-286): options, dropdown value, and the
\* first draw up to its await
AmLoad(rows) ==
  /\ mapPhase = "loading"
  /\ mapPhase' = "initial"
  /\ mapRows' = rows
  /\ mapValue' = SelectValue(rows, initialContinent(rows))
  /\ mapSvg' = 1
  /\ asyncDrawStart(rows, initialContinent(rows))
  /\ UNCHANGED <<timelineVars, harnessVars, mfVars>>

\* "change" on the dropdown (lines 428-431); the handler is registered when
\* the first draw has finished
AmChange(continent) ==
  /\ mapPhase = "ready"
  /\ Len(mapQueue) < MaxPending
  /\ continent \in SeqToSet(continentOptions(mapRows))
  /\ continent # mapValue
  /\ mapValue' = continent
  /\ asyncDrawStart(mapRows, continent)
  /\ UNCHANGED <<mapPhase, mapRows, mapSvg>>
  /\ UNCHANGED <<timelineVars, harnessVars, mfVars>>

\* an animation frame with draws waiting
AmFrame(ctm) ==
  /\ mapQueue # <<>>
  /\ LET view == asyncFrame(mapQueue, 1, [bars |-> mapBars, labels |-> mapLabels], ctm)
     IN  /\ mapBars' = view.bars
         /\ mapLabels' = view.labels
  /\ mapQueue' = WaitingAfterFrame(mapQueue)
  /\ mapPhase' = IF mapPhase = "initial" /\ mapQueue' = <<>> THEN "ready" ELSE mapPhase
  /\ UNCHANGED <<mapRows, mapValue, mapSvg, mapDots, mapWarned>>
  /\ UNCHANGED <<timelineVars, harnessVars, mfVars>>

AmNext ==
  \/ MapLoadFail
  \/ \E rows \in MapFiles : AmLoad(rows)
  \/ \E continent \in SeqToSet(VALID_CONTINENTS) : AmChange(continent)
  \/ \E ctm \in BOOLEAN : AmFrame(ctm)

SpecMapAsync == Init /\ [][AmNext]_vars

\* the continent of the last draw: the first draw falls back to "Asia" when
\* the dropdown has no option
DrawnContinent == IF mapValue = "" THEN "Asia" ELSE mapValue

\* the bars and labels a single finished draw of the continent produces
SingleAsyncDraw(rows, continent) ==
  LET siteCounts     == buildSiteCounts(rows, continent)
      projectedSites == plottedOf(siteCounts, continent)
  IN  [dots   |-> projectedSites,
       bars   |-> BarsOf(projectedSites),
       labels |-> [counts    |-> projectedSites,
                   sites     |-> SitesOf(projectedSites),
                   titles    |-> <<continent>>,
                   subtitles |-> 1,
                   notes     |-> IF missingCodesOf(siteCounts) # <<>> THEN 1 ELSE 0]]

(***************************************************************************)
(* The launch map with the scheduled bar pass (src/js/launchmap.js)        *)
(***************************************************************************)
\* draw(continent) (lines 363-516) on the svg built last: map, dots, title,
\* legend and note are drawn at once, the bar pass is scheduled two
\* animation frames later
draw(rows, continent, svgNo) ==
  LET siteCounts   == buildSiteCounts(rows, continent)
      missingCodes == missingCodesOf(siteCounts)
      plotted      == plottedOf(siteCounts, continent)
  IN  /\ mapDots' = plotted
      /\ mapBars' = <<>>
      /\ mapLabels' = [counts    |-> <<>>,
                       sites     |-> <<>>,
                       titles    |-> <<continent>>,
                       subtitles |-> 1,
                       notes     |-> IF missingCodes # <<>> THEN 1 ELSE 0]
      /\ mapWarned' = warningOf(missingCodes)
      /\ mapQueue' = Append(mapQueue, [svg |-> svgNo, plotted |-> plotted, frames |-> 2])

\* drawBarsFromDots(plotted, barHeightScale) (lines 232-361) on the svg it
\* belongs to: bars and bar labels are redrawn for the sites of plotted whose
\* dot is in the site layer now; the title, legend and note stay
drawBarsFromDots(view, plotted, dots) ==
  LET barsData == FilterSeq(plotted, [j \in DOMAIN plotted |->
                    plotted[j].site \in SeqToSet(SitesOf(dots))])
  IN  [bars   |-> BarsOf(barsData),
       labels |-> [view.labels EXCEPT !.counts = barsData, !.sites = SitesOf(barsData)]]

\* one animation frame: a bar pass that has waited two frames runs; the pass
\* of an svg that a resize has replaced draws into layers that are no longer
\* in the container
RECURSIVE barFrame(_, _, _, _, _)
barFrame(queue, k, view, dots, svgNo) ==
  IF k > Len(queue) THEN view
  ELSE IF queue[k].frames > 1 \/ queue[k].svg # svgNo
       THEN barFrame(queue, k + 1, view, dots, svgNo)
       ELSE barFrame(queue, k + 1, drawBarsFromDots(view, queue[k].plotted, dots), dots, svgNo)

\* the two files arrive (lines 152-538): options, dropdown value, first svg,
\* first draw, change handler and resize observer
LmLoad(rows) ==
  /\ mapPhase = "loading"
  /\ mapPhase' = "ready"
  /\ mapRows' = rows
  /\ mapValue' = SelectValue(rows, initialContinent(rows))
  /\ mapSvg' = 1
  /\ draw(rows, initialContinent(rows), 1)
  /\ UNCHANGED <<timelineVars, harnessVars, mfVars>>

\* "change" on the dropdown (lines 526-529)
LmChange(continent) ==
  /\ mapPhase = "ready"
  /\ Len(mapQueue) < MaxPending
  /\ continent \in SeqToSet(continentOptions(mapRows))
  /\ continent # mapValue
  /\ mapValue' = continent
  /\ draw(mapRows, continent, mapSvg)
  /\ UNCHANGED <<mapPhase, mapRows, mapSvg>>
  /\ UNCHANGED <<timelineVars, harnessVars, mfVars>>

\* the resize observer fires (lines 533-537): a new svg replaces the old one
\* and the selected continent is drawn in it
LmResize ==
  /\ mapPhase = "ready"
  /\ Len(mapQueue) < MaxPending
  /\ mapSvg < MaxSvg
  /\ mapSvg' = mapSvg + 1
  /\ draw(mapRows, IF mapValue # "" THEN mapValue ELSE initialContinent(mapRows), mapSvg')
  /\ UNCHANGED <<mapPhase, mapRows, mapValue>>
  /\ UNCHANGED <<timelineVars, harnessVars, mfVars>>

\* variant: the bar passes of a frame run newest first
LmFrameNewestFirst ==
  /\ mapQueue # <<>>
  /\ LET newestFirst == [j \in DOMAIN mapQueue |-> mapQueue[Len(mapQueue) + 1 - j]]
         view == barFrame(newestFirst, 1, [bars |-> mapBars, labels |-> mapLabels], mapDots, mapSvg)
     IN  /\ mapBars' = view.bars
         /\ mapLabels' = view.labels
  /\ mapQueue' = WaitingAfterFrame(mapQueue)
  /\ UNCHANGED <<mapPhase, mapRows, mapValue, mapSvg, mapDots, mapWarned>>
  /\ UNCHANGED <<timelineVars, harnessVars, mfVars>>

\* an animation frame with bar passes waiting
LmFrame ==
  /\ mapQueue # <<>>
  /\ LET view == barFrame(mapQueue, 1, [bars |-> mapBars, labels |-> mapLabels], mapDots, mapSvg)
     IN  /\ mapBars' = view.bars
         /\ mapLabels' = view.labels
  /\ mapQueue' = WaitingAfterFrame(mapQueue)
  /\ UNCHANGED <<mapPhase, mapRows, mapValue, mapSvg, mapDots, mapWarned>>
  /\ UNCHANGED <<timelineVars, harnessVars, mfVars>>

LmNext ==
  \/ MapLoadFail
  \/ \E rows \in MapFiles : LmLoad(rows)
  \/ \E continent \in SeqToSet(VALID_CONTINENTS) : LmChange(continent)
  \/ LmResize
  \/ LmFrame

SpecMap == Init /\ [][LmNext]_vars

(***************************************************************************)
(* Properties                                                              *)
(***************************************************************************)
\* 31 Dec of year y, 23:59:59 UTC
LastInstantOf(y) == <<y, 12, 31, 86399>>

\* the record qualifies for year y under the selected types S
Qualifies(r, y, S) ==
  /\ r.objectType \in S
  /\ DateLE(r.launchDate, LastInstantOf(y))
  /\ (r.decayDate = NullDate \/ ~DateLE(r.decayDate, LastInstantOf(y)))

\* C1: after renderYear for year y under the selected types S, the active set
\* holds exactly the working-set records whose type is in S, that were
\* launched by the end of y and that have no decay date or one after the end
\* of y: each such record once, in working-set order, and no other record.
C1_ActiveSetExact ==
  phase = "ready" =>
    /\ \A j \in 1 .. (Len(currentActive) - 1) : currentActive[j] < currentActive[j + 1]
    /\ SeqToSet(currentActive) =
         {k \in DOMAIN leoData : Qualifies(leoData[k], yearLabel, selectedTypes)}

C1_Witness ==
  /\ phase = "ready"
  /\ yearLabel = 2001
  /\ selectedTypes = {"PAY", "DEB"}
  /\ currentActive # <<>>
  /\ \E k \in DOMAIN leoData :
       /\ leoData[k].objectType \in selectedTypes
       /\ leoData[k].decayDate # NullDate
       /\ getUTCFullYear(leoData[k].decayDate) = 2001
       /\ k \notin SeqToSet(currentActive)
  /\ \E k \in DOMAIN leoData :
       /\ getUTCFullYear(leoData[k].launchDate) = 2002
       /\ k \notin SeqToSet(currentActive)

\* C2: for every input sequence and every M > 0, subsample returns at most M
\* elements, and returns the input itself when the input has at most M
\* elements.
C2_SubsampleBound ==
  ret # <<>> =>
    /\ Len(ret[1]) <= call.maxCount
    /\ (Len(call.arr) <= call.maxCount => ret[1] = call.arr)

C2_Witness ==
  /\ ret # <<>>
  /\ Len(call.arr) > call.maxCount
  /\ Len(ret[1]) = call.maxCount
  /\ call.maxCount > 1

\* the least s with s * m >= n, i.e. ceil(n / m)
LeastStride(n, m) == CHOOSE st \in 1 .. n : st * m >= n /\ (st - 1) * m < n

\* C3: when the input has more than M elements, subsample returns the
\* elements at the zero-based positions 0, step, 2*step, ... below the input
\* length, step = ceil(|input| / M), in input order; the result has
\* ceil(|input| / step) elements and starts with the first input element.
C3_SubsampleStride ==
  (ret # <<>> /\ Len(call.arr) > call.maxCount) =>
    LET n    == Len(call.arr)
        step == LeastStride(n, call.maxCount)
    IN  /\ Len(ret[1]) = Cardinality({j \in 0 .. (n - 1) : j * step < n})
        /\ Len(ret[1]) = LeastStride(n, step)
        /\ \A j \in 1 .. Len(ret[1]) : ret[1][j] = call.arr[((j - 1) * step) + 1]
        /\ ret[1][1] = call.arr[1]

C3_Witness ==
  /\ ret # <<>>
  /\ Len(call.arr) = 7
  /\ call.maxCount = 3
  /\ ret[1] = <<call.arr[1], call.arr[4], call.arr[7]>>
  /\ call.arr[1] # call.arr[2]

\* the number JavaScript reads from the cell is finite and at most lim
ReadsAtMost(v, lim) == ToNumber(v).k = "num" /\ ToNumber(v).v <= lim

\* the LEO rule on the numbers read from the cells of a row or record
LeoRule(d) ==
  /\ d.ORBIT_CENTER = "EA"
  /\ (ReadsAtMost(d.APOGEE, 2000) \/ ReadsAtMost(d.PERIOD, 127))

\* the launch-date cells of the model that "%Y-%m-%d" does not parse
UnparseableCells == {Undefined, "", "n/a"}

NoNumber(v) == v = Undefined \/ v \in BlankStrings \/ v \notin DOMAIN NumeralValue

\* C5: a row whose APOGEE and PERIOD cells both hold no number is never kept
\* as LEO, whatever its orbit center.
C5_AbsentNeverLeo ==
  (ret # <<>> /\ NoNumber(call.d.APOGEE) /\ NoNumber(call.d.PERIOD)) =>
    ret[1] = Null

IsCalendarDay(date) ==
  /\ Len(date) = 4
  /\ date[2] \in 1 .. 12
  /\ date[3] \in 1 .. DaysInMonth(date[1], date[2])
  /\ date[4] = 0

HasOwnId(r) == r.NORAD_CAT_ID \in DOMAIN NumeralValue /\ NumeralValue[r.NORAD_CAT_ID] # 0

\* C8: when the ids given in the file are pairwise different, no two records
\* of the working set have the same norad, fallback ids included.
C8_UniqueIds ==
  (\A j, k \in DOMAIN leoData :
     (j # k /\ HasOwnId(leoData[j]) /\ HasOwnId(leoData[k]))
       => leoData[j].NORAD_CAT_ID # leoData[k].NORAD_CAT_ID)
  => (\A j, k \in DOMAIN leoData : j # k => leoData[j].norad # leoData[k].norad)

LayoutFields(r) == <<r.baseAngle, r.baseRadius, r.drift>>

QLess(a, b) == a[1] < b[1] \/ (a[1] = b[1] /\ a[2] < b[2])
QLessEq(a, b) == a = b \/ QLess(a, b)

\* C10: every draw u of a seeded generator satisfies 0 <= u < 1, and the
\* layout made of four draws has baseAngle in [pi, 2*pi), baseRadius in
\* [285, 475] and a drift of magnitude in [0.08, 0.28) and sign -1 or +1.
C10_DrawAndLayoutRanges ==
  /\ \A k \in DOMAIN ret :
       ret[k][1] \in 0 .. 65535 /\ ret[k][2] \in 0 .. 65535
  /\ Len(ret) >= 4 =>
       LET lay == LayoutOfDraws(ret[1], ret[2], ret[3], ret[4])
       IN  /\ QLessEq(<<65536, 0>>, lay.baseAngle)
           /\ QLess(lay.baseAngle, <<2 * 65536, 0>>)
           /\ QLessEq(<<(250 + 35) * 65536, 0>>, lay.baseRadius)
           /\ QLessEq(lay.baseRadius, <<(250 + 225) * 65536, 0>>)
           /\ QLessEq(<<8 * 65536, 0>>, lay.drift.mag)
           /\ QLess(lay.drift.mag, <<28 * 65536, 0>>)
           /\ lay.drift.sign \in {-1, 1}
           /\ lay = Layout(call.seed)

C10_Witness ==
  /\ Len(ret) = 4
  /\ call.seed = 25544
  /\ ret[4][1] >= 32768
  /\ ret[1][1] < 32768


\* C11: right after seeding and after every call, the state variable t of the
\* generator is an integer in [0, 2^32).
C11_StateIn32Bits ==
  /\ rngT[1] \in 0 .. (W16 - 1)
  /\ rngT[2] \in 0 .. (W16 - 1)

\* C12: while the dataset is still loading no interaction handler has run and
\* renderYear has not been invoked: the selected types are the initial ones
\* and no handler or renderYear call has ended, with or without an error.
C12_NoHandlerWhileLoading ==
  phase = "loading" =>
    /\ selectedTypes = SeqToSet(TYPE_OPTIONS)
    /\ outcome = "ok"
    /\ yearLabel = NoYear


\* C14: records are immutable after the initial parse: once the working set
\* is built, no slider input, checkbox toggle, renderYear call or timer
\* callback changes it (membership, order, any field of any record); neither
\* do they change the parsed rows, the slider range or the messages.
C14_RecordsImmutable ==
  [][phase # "loading" =>
       /\ leoData' = leoData
       /\ data' = data
       /\ sliderMin' = sliderMin
       /\ sliderMax' = sliderMax
       /\ messages' = messages
       /\ phase' = phase]_vars

C14_Witness ==
  /\ phase = "ready"
  /\ Len(leoData) >= 2
  /\ frame >= 1
  /\ selectedTypes # SeqToSet(TYPE_OPTIONS)
  /\ yearLabel > sliderMin
  /\ \E j \in DOMAIN satSel : satSel[j].pos # <<>>

\* C15: when the load yields no usable record the message is shown and the
\* initialization stops: the slider keeps the range it had, renderYear is
\* never called (nothing is rendered and no call of it ends in an error) and
\* the timer never runs.
C15_EmptyLoadStops ==
  phase = "halted" =>
    /\ messages = <<"No LEO records found.">>
    /\ sliderMin = 0 /\ sliderMax = 100 /\ sliderValue = 50
    /\ yearLabel = NoYear
    /\ frame = 0
    /\ outcome = "Error: No usable LEO data."

\* C17: a failed fetch of the catalog file is reported as an inline message
\* in the timeline container and does not end the module with an error.
C17_FetchFailureReported ==
  phase = "rejected" =>
    /\ messages # <<>>
    /\ outcome = "ok"


\* C19: after every renderYear call the rendered-points note is non-empty
\* iff the active set has more than MAX_RENDERED records, it then states the
\* number of circles of the subsample, and the main count states the size of
\* the full active set.
C19_NoteIffSubsampled ==
  phase = "ready" =>
    /\ countText = Len(currentActive)
    /\ (renderedNote # <<>>) <=> (Len(currentActive) > MAX_RENDERED)
    /\ renderedNote # <<>> =>
         /\ renderedNote = <<Len(satSel)>>
         /\ Len(satSel) = Len(subsample(currentActive, MAX_RENDERED))
         /\ Len(satSel) <= MAX_RENDERED
    /\ renderedNote = <<>> => Len(satSel) = Len(currentActive)

C19_Witness ==
  /\ phase = "ready"
  /\ Len(currentActive) = MAX_RENDERED + 1
  /\ renderedNote = <<751>>
  /\ countText = 1501

\* C20: for fixed selected types, when the year moves from y1 to a later year
\* y2, a record active at y1 with no decay date or with a decay date after
\* the end of y2 is active at y2, and a record active at y1 whose decay date
\* is not after the end of y2 is not.
C20_ActiveMonotone ==
  [][(phase = "ready" /\ selectedTypes' = selectedTypes /\ yearLabel < yearLabel') =>
       LET later == SeqToSet(currentActive')
       IN  \A j \in DOMAIN currentActive :
             LET r == leoData[currentActive[j]]
             IN  (currentActive[j] \in later) <=>
                   (r.decayDate = NullDate \/ DateGT(r.decayDate, LastInstantOf(yearLabel')))]_vars

C20_Witness ==
  /\ phase = "ready"
  /\ yearLabel = 2000
  /\ selectedTypes = SeqToSet(TYPE_OPTIONS)
  /\ currentActive = <<2, 3>>
  /\ leoData[2].decayDate # NullDate
  /\ Len(leoData) > MAX_RENDERED


\* C16: in the manufacturer view a failed fetch or parse of the file is
\* reported to the console and as an inline message in the container, the
\* chart data stays empty, nothing is drawn and no exception escapes the
\* loader.
C16_MfFailureReported ==
  mfPhase = "failed" =>
    /\ mfConsole = <<"Error loading satcat.tsv:">>
    /\ mfMessages = <<"Failed to load satellite data. See console for details.">>
    /\ mfData = <<>>
    /\ mfSeries = <<>>
    /\ mfDraws = 0
    /\ mfOutcome = "ok"

C16_Witness ==
  /\ mfPhase = "failed"
  /\ mfRanking = "owner"
  /\ mfMessages # <<>>


\* C13: after any sequence of continent selections, once every started draw
\* has finished, the launch map shows the dots, bars, labels and title of the
\* last selected continent only, exactly as a single draw of that continent
\* produces them.
C13_LastContinentOnly ==
  (mapPhase = "ready" /\ mapQueue = <<>>) =>
    [dots |-> mapDots, bars |-> mapBars, labels |-> mapLabels]
      = SingleAsyncDraw(mapRows, DrawnContinent)


\* the site codes of the rows of the continent, and the number of rows of a
\* code
SiteCodesOf(rows, continent) ==
  {normalizeSiteCode(rows[k].LAUNCH_SITE) :
     k \in {h \in DOMAIN rows : TrimCell(Coalesce(rows[h].CONTINENT, "")) = continent}} \ {""}

LaunchesOf(rows, continent, site) ==
  Cardinality({k \in DOMAIN rows :
    /\ TrimCell(Coalesce(rows[k].CONTINENT, "")) = continent
    /\ normalizeSiteCode(rows[k].LAUNCH_SITE) = site})

C21_EmptySelectionNoError ==
  selectedTypes = {} =>
    /\ outcome # "ReferenceError"
    /\ phase = "ready" =>
         /\ currentActive = <<>>
         /\ satSel = <<>>
         /\ countText = 0
         /\ renderedNote = <<>>


\* C22: for an active set of 10,000 records and MAX_RENDERED = 1500 the
\* subsample has exactly ceil(10000 / ceil(10000 / 1500)) = 1429 elements,
\* and the view reports the subsampling: the note gives 1429 animated points
\* and the count gives 10,000.
C22_TenThousand ==
  (phase = "ready" /\ Len(currentActive) = 10000) =>
    /\ Len(subsample(currentActive, MAX_RENDERED)) = Ceil(10000, Ceil(10000, 1500))
    /\ Ceil(10000, Ceil(10000, 1500)) = 1429
    /\ Len(satSel) = 1429
    /\ \A j \in DOMAIN satSel : satSel[j].ref = currentActive[7 * (j - 1) + 1]
    /\ renderedNote = <<1429>>
    /\ countText = 10000

C22_Witness ==
  /\ phase = "ready"
  /\ Len(leoData) = 10000
  /\ selectedTypes = SeqToSet(TYPE_OPTIONS)
  /\ Len(currentActive) = 10000
  /\ renderedNote = <<1429>>


\* C23: for five records launched in 1965, 1980, 1999, 2005 and 2020, two of
\* those launched before 2010 decaying in 2010, the active set for 2012
\* leaves out the two decayed records and the record of 2020 and holds the
\* other two, as far as their type is selected: exactly two records when
\* every type is selected.
C23_FiveRecords ==
  (phase = "ready" /\ yearLabel = 2012) =>
    LET decayed  == {k \in DOMAIN leoData : leoData[k].decayDate # NullDate}
        expected == {k \in 1 .. 4 : k \notin decayed /\ leoData[k].objectType \in selectedTypes}
    IN  /\ Cardinality(decayed) = 2
        /\ SeqToSet(currentActive) = expected
        /\ Len(currentActive) = Cardinality(expected)
        /\ countText = Cardinality(expected)
        /\ selectedTypes = SeqToSet(TYPE_OPTIONS) => Len(currentActive) = 2

C23_Witness ==
  /\ phase = "ready"
  /\ yearLabel = 2012
  /\ selectedTypes = SeqToSet(TYPE_OPTIONS)
  /\ currentActive = <<2, 4>>
  /\ leoData[1].decayDate = DateUTC(2010, 11, 31, 0)
  /\ leoData[3].decayDate # NullDate


\* C24: an animation tick writes only the positions of the rendered points:
\* the working set with the layout of each record, the selected types, the
\* current active set, the records the circles stand for, the displayed
\* year and count, the note and the slider are left as they are.
C24_TickWritesPositionsOnly ==
  [][frame' # frame =>
       /\ leoData' = leoData
       /\ data' = data
       /\ selectedTypes' = selectedTypes
       /\ currentActive' = currentActive
       /\ [j \in DOMAIN satSel' |-> satSel'[j].ref] = [j \in DOMAIN satSel |-> satSel[j].ref]
       /\ yearLabel' = yearLabel
       /\ pinYear' = pinYear
       /\ countText' = countText
       /\ renderedNote' = renderedNote
       /\ sliderValue' = sliderValue
       /\ messages' = messages]_vars

C24_Witness ==
  /\ phase = "ready"
  /\ frame = 1
  /\ Len(satSel) >= 2
  /\ \A j \in DOMAIN satSel : satSel[j].pos = <<1, Len(currentActive)>>



\* after each handler the view agrees with the controls: the current active
\* set is activeAtYear of the slider year under the selected types, the
\* count is its size, the circles stand for subsample(active set,
\* MAX_RENDERED), and the year label and the pin show the slider year
ViewMatchesControls ==
  phase = "ready" =>
    /\ outcome = "ok"
    /\ currentActive = activeAtYear(leoData, sliderValue, selectedTypes)
    /\ countText = Len(currentActive)
    /\ [j \in DOMAIN satSel |-> satSel[j].ref] = subsample(currentActive, MAX_RENDERED)
    /\ yearLabel = sliderValue
    /\ pinYear = sliderValue

\* the ids given in the file are pairwise different
FileIdsDistinct ==
  \A j, k \in DOMAIN leoData :
    (j # k /\ HasOwnId(leoData[j]) /\ HasOwnId(leoData[k]))
      => leoData[j].NORAD_CAT_ID # leoData[k].NORAD_CAT_ID

\* C25: after any sequence of slider inputs and checkbox toggles the view
\* agrees with the controls (active set, count, rendered points, year label
\* and pin), and a renderYear call with the year and the types of the call
\* before it changes nothing: the active set, the count, the note, the year
\* and the circles with their positions stay as they are. The ids given in
\* the file are taken to be pairwise different.
C25_RenderIdempotent ==
  [][(phase = "ready" /\ FileIdsDistinct /\ frame' = frame
        /\ sliderValue' = sliderValue /\ selectedTypes' = selectedTypes)
       => (UNCHANGED viewVars /\ ViewMatchesControls')]_vars


\* C26: a record of a selected type is active at year y iff its launch year
\* is at most y and it has no decay date or its decay year is after y; a
\* record that decays during y is not active at y, and a record launched and
\* decayed in the same calendar year is active at no year.
C26_ActiveByCalendarYear ==
  phase = "ready" =>
    \A k \in DOMAIN leoData :
      LET r == leoData[k]
      IN  /\ (k \in SeqToSet(currentActive)) <=>
               /\ r.objectType \in selectedTypes
               /\ getUTCFullYear(r.launchDate) <= yearLabel
               /\ (r.decayDate = NullDate \/ getUTCFullYear(r.decayDate) > yearLabel)
          /\ (r.decayDate # NullDate /\ getUTCFullYear(r.decayDate) = yearLabel)
               => k \notin SeqToSet(currentActive)
          /\ (r.decayDate # NullDate
                /\ getUTCFullYear(r.decayDate) = getUTCFullYear(r.launchDate))
               => k \notin SeqToSet(currentActive)

C26_Witness ==
  /\ phase = "ready"
  /\ currentActive # <<>>
  /\ \E k \in DOMAIN leoData :
       /\ leoData[k].decayDate # NullDate
       /\ getUTCFullYear(leoData[k].decayDate) = getUTCFullYear(leoData[k].launchDate)
       /\ getUTCFullYear(leoData[k].launchDate) = yearLabel
       /\ leoData[k].objectType \in selectedTypes
       /\ k \notin SeqToSet(currentActive)


\* C27: in the launch map with the scheduled bar pass, after any sequence of
\* continent changes and container resizes, once every scheduled frame
\* callback has run, the bar layer holds exactly one bar, with its count
\* label and its site label, per site whose dot is drawn for the selected
\* continent, with the launch counts of that continent; the bar pass of an
\* earlier draw does not replace the result of a later draw.
C27_BarsOfLastDraw ==
  (mapPhase = "ready" /\ mapQueue = <<>>) =>
    /\ \A j \in DOMAIN mapDots :
         mapDots[j].count = LaunchesOf(mapRows, DrawnContinent, mapDots[j].site)
    /\ Len(mapBars) = Len(mapDots)
    /\ \A j \in DOMAIN mapBars :
         /\ mapBars[j].site = mapDots[j].site
         /\ mapBars[j].count = mapDots[j].count
         /\ mapBars[j].faces = 3
    /\ \A j, k \in DOMAIN mapBars : j # k => mapBars[j].site # mapBars[k].site
    /\ mapLabels.counts = mapDots
    /\ mapLabels.sites = SitesOf(mapDots)
    /\ mapLabels.titles = <<DrawnContinent>>

C27_Witness ==
  /\ mapPhase = "ready"
  /\ mapQueue = <<>>
  /\ mapSvg = 2
  /\ mapValue = "Europe"
  /\ Len(mapBars) = 2
  /\ \E j \in DOMAIN mapBars : mapBars[j].site = "TYMSC" /\ mapBars[j].count = 1
  /\ \E k \in DOMAIN mapRows :
       mapRows[k].CONTINENT = "Asia" /\ mapRows[k].LAUNCH_SITE = "TYMSC"


\* C28: in the manufacturer view a change of the ranking dropdown while the
\* dataset is empty (before the data has loaded, after a failed load, after
\* a load without usable rows) draws nothing and raises no error, and the
\* assignment of a non-empty dataset draws the chart exactly once.
C28_NoDataNoDraw ==
  [][/\ (mfData = <<>> /\ mfPhase' = mfPhase) =>
          /\ mfSeries' = <<>>
          /\ mfDraws' = 0
          /\ mfOutcome' = "ok"
          /\ mfData' = <<>>
          /\ mfMessages' = mfMessages
          /\ mfConsole' = mfConsole
     /\ (mfPhase' # mfPhase /\ mfPhase' = "loaded") =>
          /\ mfDraws = 0
          /\ mfDraws' = IF mfData' # <<>> THEN 1 ELSE 0]_vars

C28_Witness ==
  /\ mfPhase = "loaded"
  /\ mfData # <<>>
  /\ mfRanking = "owner"
  /\ mfDraws = 1
  /\ mfSeries # <<>>


\* a mulberry32 whose state is reduced modulo 2^32 after each increment
RefStep(t) == Add32(t, Increment)

RefOut(t) ==
  LET x1 == Imul(Xor32(t, Shr(t, 15)), OrSmall(1, t))
      x2 == Xor32(x1, Add32(x1, Imul(Xor32(x1, Shr(x1, 7)), OrSmall(61, x1))))
  IN  Xor32(x2, Shr(x2, 14))

RECURSIVE RefState(_, _)
RefState(seed, k) == IF k = 0 THEN SeedToUint32(seed) ELSE RefStep(RefState(seed, k - 1))

\* C29: for every seed and every call index the generator returns what a
\* mulberry32 with a state reduced modulo 2^32 after each increment returns;
\* a seed congruent modulo 2^32 to the integer seed, and a seed with a
\* fraction whose truncation is that integer, give the same draws and the
\* same layout as the integer seed.
C29_SameAsReducedGenerator ==
  /\ \A k \in DOMAIN ret : ret[k] = RefOut(RefState(call.seed, k))
  /\ ToUint32(rngT) = RefState(call.seed, Len(ret))
  /\ Len(ret) >= 4 => LayoutOfDraws(ret[1], ret[2], ret[3], ret[4]) = Layout(call.seed)

C29_Witness ==
  /\ Len(ret) = 4
  /\ call.seed = -3
  /\ call.wraps = 1
  /\ call.half
  /\ rngT[1] >= W16


\* the sum of the counts of a sequence of values, and of a sequence of series
RECURSIVE SumCounts(_)
SumCounts(values) ==
  IF values = <<>> THEN 0 ELSE Head(values).count + SumCounts(Tail(values))

RECURSIVE SumSeries(_)
SumSeries(series) ==
  IF series = <<>> THEN 0 ELSE SumCounts(Head(series).values) + SumSeries(Tail(series))

\* the Manufacturer cell names a manufacturer: trimmed, it is not empty, not
\* "-" and not "N/A" in any letter case
NamesManufacturer(d) ==
  /\ d.Manufacturer # Undefined
  /\ TrimCell(d.Manufacturer) \notin {"", "-", "N/A", "n/a"}

\* C30: in the chart drawn by updateVisualization every series has exactly
\* one value per distinct year of the data, in increasing order of year; each
\* value is the number of records with that group key and year; the sum of
\* all values of all series is the number of records whose group key is not
\* null: all records when grouping by state (which falls back to owner, then
\* to "Unknown"), the records whose Manufacturer cell names a manufacturer
\* when grouping by manufacturer.
C30_SeriesCountRecords ==
  mfDraws > 0 =>
    LET groupKey == IF mfRanking = "owner" THEN "state" ELSE "manufacturer"
        years    == {mfData[k].year : k \in DOMAIN mfData}
    IN  /\ \A i \in DOMAIN mfSeries :
             LET values == mfSeries[i].values
             IN  /\ Len(values) = Cardinality(years)
                 /\ {values[j].year : j \in DOMAIN values} = years
                 /\ \A j \in DOMAIN values :
                      /\ j > 1 => values[j - 1].year < values[j].year
                      /\ values[j].count =
                           Cardinality({k \in DOMAIN mfData :
                             /\ GroupOf(mfData[k], groupKey) = mfSeries[i].key
                             /\ mfData[k].year = values[j].year})
        /\ \A i, h \in DOMAIN mfSeries : i # h => mfSeries[i].key # mfSeries[h].key
        /\ SumSeries(mfSeries) =
             Cardinality({k \in DOMAIN mfData : GroupOf(mfData[k], groupKey) # NullStr})
        /\ groupKey = "state" =>
             /\ SumSeries(mfSeries) = Len(mfData)
             /\ \A k \in DOMAIN mfData :
                  mfData[k].state =
                    IF mfData[k].State # Undefined /\ TrimCell(mfData[k].State) # ""
                    THEN TrimCell(mfData[k].State)
                    ELSE IF mfData[k].OWNER # Undefined /\ TrimCell(mfData[k].OWNER) # ""
                    THEN TrimCell(mfData[k].OWNER)
                    ELSE "Unknown"
        /\ groupKey = "manufacturer" =>
             SumSeries(mfSeries) =
               Cardinality({k \in DOMAIN mfData : NamesManufacturer(mfData[k])})

C30_Witness ==
  /\ mfDraws > 0
  /\ mfRanking = "manufacturer"
  /\ Len(mfData) = 2
  /\ mfData[1].year # mfData[2].year
  /\ SumSeries(mfSeries) = 1
  /\ \E i \in DOMAIN mfSeries : \E j \in DOMAIN mfSeries[i].values :
       mfSeries[i].values[j].count = 0

=============================================================================
